---- MODULE Spec2Model ----
(***************************************************************************)
(* Model of the scheduler crate: Schedule::new (the cron expression        *)
(* parser, src/src/lib.rs) and Schedule::get_next_match (the search for    *)
(* the next occurrence, src/src/lib.rs, over the TimeExtension primitives  *)
(* of src/src/time_extension.rs).                                          *)
(*                                                                         *)
(* Strings are sequences of one-character strings.  A bitfield (u64) is    *)
(* the set of the indices of its 1 bits: `bitfield |= 1 << i` adds i.      *)
(* An instant (OffsetDateTime) is a record of its calendar fields.         *)
(***************************************************************************)
EXTENDS Integers, Sequences, FiniteSets, TLC

\* ------------------------------------------------------------------ bounds

\* First year of the starting instants; they lie in FirstYear..FirstYear+1.
FirstYear == 2023

\* Largest modulo m of the step items `*/m` and `n/m` of the parser's inputs.
MaxModulo == 3

\* Largest year of an instant (the time crate's 9999, scaled): an addition
\* that leaves it is the `None` of checked_add.  Every satisfiable schedule
\* has an occurrence within four years of any instant, so a search that
\* leaves LastYear is a search that no calendar instant ends.
LastYear == FirstYear + 5

\* ----------------------------------------------------------------- strings

Digit == <<"0", "1", "2", "3", "4", "5", "6", "7", "8", "9">>

IsDigit(c) == \E i \in 1..10 : Digit[i] = c

DigitVal(c) == (CHOOSE i \in 1..10 : Digit[i] = c) - 1

\* str::contains(ch)
Contains(s, ch) == \E i \in 1..Len(s) : s[i] = ch

\* str::split(sep).collect(): the pieces between the separators, empty
\* pieces included; the empty string splits into one empty piece.
RECURSIVE Split(_, _)
Split(s, sep) ==
    IF ~Contains(s, sep) THEN <<s>>
    ELSE LET i == CHOOSE k \in 1..Len(s) :
                     s[k] = sep /\ \A j \in 1..(k - 1) : s[j] # sep
         IN  <<SubSeq(s, 1, i - 1)>> \o Split(SubSeq(s, i + 1, Len(s)), sep)

\* usize::MAX = 18446744073709551615, as its decimal digits.
UsizeMaxDigits ==
    <<"1", "8", "4", "4", "6", "7", "4", "4", "0", "7",
      "3", "7", "0", "9", "5", "5", "1", "6", "1", "5">>

RECURSIVE StripZeros(_)
StripZeros(s) ==
    IF Len(s) > 1 /\ Head(s) = "0" THEN StripZeros(Tail(s)) ELSE s

\* Whether the digit string a (no leading zeros, same length as b) is a
\* larger number than b.
RECURSIVE DigitsGreater(_, _)
DigitsGreater(a, b) ==
    IF a = <<>> THEN FALSE
    ELSE IF DigitVal(Head(a)) # DigitVal(Head(b))
         THEN DigitVal(Head(a)) > DigitVal(Head(b))
         ELSE DigitsGreater(Tail(a), Tail(b))

RECURSIVE DigitsValue(_, _)
DigitsValue(s, acc) ==
    IF s = <<>> THEN acc ELSE DigitsValue(Tail(s), acc * 10 + DigitVal(Head(s)))

\* str::parse::<usize>(): an optional leading "+", then one or more decimal
\* digits; Err on the empty string, on any other character (a "-" too) and
\* on a value above usize::MAX.
ParseUsize(s) ==
    LET body == IF Len(s) > 0 /\ Head(s) = "+" THEN Tail(s) ELSE s
        sig  == StripZeros(body)
    IN  IF body = <<>> \/ \E i \in 1..Len(body) : ~IsDigit(body[i])
        THEN [ok |-> FALSE, val |-> 0]
        ELSE IF \/ Len(sig) > Len(UsizeMaxDigits)
                \/ Len(sig) = Len(UsizeMaxDigits) /\ DigitsGreater(sig, UsizeMaxDigits)
        THEN [ok |-> FALSE, val |-> 0]
        ELSE [ok |-> TRUE, val |-> DigitsValue(sig, 0)]

\* ------------------------------------------------------------ ParsingError

Ok(bitfield) == [kind |-> "Ok", bitfield |-> bitfield]

InvalidNumber(expression, number) ==
    [kind |-> "InvalidNumber", expression |-> expression, text |-> number]

InvalidList(expression, list) ==
    [kind |-> "InvalidList", expression |-> expression, text |-> list]

InvalidRange(expression, range) ==
    [kind |-> "InvalidRange", expression |-> expression, text |-> range]

InvalidModulo(expression, modulo) ==
    [kind |-> "InvalidModulo", expression |-> expression, text |-> modulo]

InvalidExpressionLength(expression, expected, got) ==
    [kind |-> "InvalidExpressionLength", expression |-> expression,
     expected |-> expected, got |-> got]

\* A panic of the thread (an arithmetic panic, a failed `expect`).
Panic(message) == [kind |-> "Panic", message |-> message]

\* --------------------------------------------------------- parse_component

\* The wildcard branch: `for i in 0..N { bitfield |= 1 << i }`.
\* The wildcard branch with `0..=N` for `0..N`.
wildcard_item_sets_through_N(N) == 0..N

wildcard_item(N) == 0..(N - 1)

\* range_item with `end > N` for `end >= N`.
range_item_end_inclusive_of_N(N, expression, sub_component) ==
    LET range == Split(sub_component, "-")
    IN  IF Len(range) # 2 THEN InvalidRange(expression, sub_component)
        ELSE LET start == ParseUsize(range[1])
                 end   == ParseUsize(range[2])
             IN  IF ~start.ok THEN InvalidNumber(expression, range[1])
                 ELSE IF ~end.ok THEN InvalidNumber(expression, range[2])
                 ELSE IF (start.val > end.val) \/ (end.val > N)
                 THEN InvalidRange(expression, sub_component)
                 ELSE Ok(start.val..end.val)

\* range_item with `start..end` for `start..=end`.
range_item_end_exclusive(N, expression, sub_component) ==
    LET range == Split(sub_component, "-")
    IN  IF Len(range) # 2 THEN InvalidRange(expression, sub_component)
        ELSE LET start == ParseUsize(range[1])
                 end   == ParseUsize(range[2])
             IN  IF ~start.ok THEN InvalidNumber(expression, range[1])
                 ELSE IF ~end.ok THEN InvalidNumber(expression, range[2])
                 ELSE IF (start.val > end.val) \/ (end.val >= N)
                 THEN InvalidRange(expression, sub_component)
                 ELSE Ok(start.val..(end.val - 1))

\* The range branch `a-b` of one sub_component: the bits it adds, or the
\* error it returns.
range_item(N, expression, sub_component) ==
    LET range == Split(sub_component, "-")
    IN  IF Len(range) # 2 THEN InvalidRange(expression, sub_component)
        ELSE LET start == ParseUsize(range[1])
                 end   == ParseUsize(range[2])
             IN  IF ~start.ok THEN InvalidNumber(expression, range[1])
                 ELSE IF ~end.ok THEN InvalidNumber(expression, range[2])
                 ELSE IF (start.val > end.val) \/ (end.val >= N)
                 THEN InvalidRange(expression, sub_component)
                 ELSE Ok(start.val..end.val)

\* modulo_item with `for i in 1..N` for `for i in 0..N`.
modulo_item_from_one(N, expression, sub_component) ==
    LET range == Split(sub_component, "/")
    IN  IF Len(range) # 2 THEN InvalidModulo(expression, sub_component)
        ELSE IF range[1] # <<"*">> THEN InvalidModulo(expression, sub_component)
        ELSE LET modulo == ParseUsize(range[2])
             IN  IF ~modulo.ok THEN InvalidNumber(expression, range[2])
                 ELSE IF modulo.val = 0
                 THEN Panic("attempt to calculate the remainder with a divisor of zero")
                 ELSE Ok({i \in 1..(N - 1) : i % modulo.val = 0})

\* The modulo branch `*/m` of one sub_component.  `i % modulo` with
\* modulo = 0 panics at the first i.
modulo_item(N, expression, sub_component) ==
    LET range == Split(sub_component, "/")
    IN  IF Len(range) # 2 THEN InvalidModulo(expression, sub_component)
        ELSE IF range[1] # <<"*">> THEN InvalidModulo(expression, sub_component)
        ELSE LET modulo == ParseUsize(range[2])
             IN  IF ~modulo.ok THEN InvalidNumber(expression, range[2])
                 ELSE IF modulo.val = 0
                 THEN Panic("attempt to calculate the remainder with a divisor of zero")
                 ELSE Ok({i \in 0..(N - 1) : i % modulo.val = 0})

\* The last branch: a single number.
number_item(N, expression, sub_component) ==
    LET index == ParseUsize(sub_component)
    IN  IF ~index.ok THEN InvalidNumber(expression, sub_component)
        ELSE IF index.val >= N THEN InvalidNumber(expression, sub_component)
        ELSE Ok({index.val})

\* The loop `for sub_component in component.split(",")`, from the items
\* still to visit and the bitfield so far.  The wildcard breaks out of the
\* loop: the items after it are not visited.
RECURSIVE parse_sub_components(_, _, _, _, _)
parse_sub_components(N, expression, component, items, bitfield) ==
    IF items = <<>> THEN Ok(bitfield)
    ELSE LET sub_component == Head(items)
         IN  IF sub_component = <<>> THEN InvalidList(expression, component)
             ELSE IF sub_component = <<"*">>
             THEN Ok(bitfield \cup wildcard_item(N))
             ELSE LET r == IF Contains(sub_component, "-")
                           THEN range_item(N, expression, sub_component)
                           ELSE IF Contains(sub_component, "/")
                           THEN modulo_item(N, expression, sub_component)
                           ELSE number_item(N, expression, sub_component)
                  IN  IF r.kind # "Ok" THEN r
                      ELSE parse_sub_components(N, expression, component,
                                                Tail(items), bitfield \cup r.bitfield)

parse_component(N, expression, component) ==
    parse_sub_components(N, expression, component, Split(component, ","), {})

\* The widths of the four fields: parse_component::<12>, <31>, <24>, <60>.
MonthsN == 12

DaysOfMonthN == 31

HoursN == 24

MinutesN == 60

ExpectedComponents == 5

\* Schedule::new with `component.len() < 5` for `component.len() != 5`.
Schedule_new_accepts_longer(expression) ==
    LET component == Split(expression, " ")
    IN  IF Len(component) < ExpectedComponents
        THEN InvalidExpressionLength(expression, ExpectedComponents, Len(component))
        ELSE LET months == parse_component(MonthsN, expression, component[4])
                 days_of_month == parse_component(DaysOfMonthN, expression, component[3])
                 hours == parse_component(HoursN, expression, component[2])
                 minutes == parse_component(MinutesN, expression, component[1])
             IN  IF months.kind # "Ok" THEN months
                 ELSE IF days_of_month.kind # "Ok" THEN days_of_month
                 ELSE IF hours.kind # "Ok" THEN hours
                 ELSE IF minutes.kind # "Ok" THEN minutes
                 ELSE [kind |-> "Ok",
                       schedule |-> [months |-> months.bitfield,
                                     days_of_month |-> days_of_month.bitfield,
                                     hours |-> hours.bitfield,
                                     minutes |-> minutes.bitfield]]

\* Schedule::new compiling the fifth component too, as a field of width 7.
Schedule_new_compiles_day_of_week(expression) ==
    LET component == Split(expression, " ")
    IN  IF Len(component) # ExpectedComponents
        THEN InvalidExpressionLength(expression, ExpectedComponents, Len(component))
        ELSE LET months == parse_component(MonthsN, expression, component[4])
                 days_of_month == parse_component(DaysOfMonthN, expression, component[3])
                 hours == parse_component(HoursN, expression, component[2])
                 minutes == parse_component(MinutesN, expression, component[1])
                 days_of_week == parse_component(7, expression, component[5])
             IN  IF months.kind # "Ok" THEN months
                 ELSE IF days_of_month.kind # "Ok" THEN days_of_month
                 ELSE IF hours.kind # "Ok" THEN hours
                 ELSE IF minutes.kind # "Ok" THEN minutes
                 ELSE IF days_of_week.kind # "Ok" THEN days_of_week
                 ELSE [kind |-> "Ok",
                       schedule |-> [months |-> months.bitfield,
                                     days_of_month |-> days_of_month.bitfield,
                                     hours |-> hours.bitfield,
                                     minutes |-> minutes.bitfield]]

\* Schedule::new: the Schedule, the first ParsingError in the order month,
\* day of month, hour, minute (the `?` returns), or the panic.
Schedule_new(expression) ==
    LET component == Split(expression, " ")
    IN  IF Len(component) # ExpectedComponents
        THEN InvalidExpressionLength(expression, ExpectedComponents, Len(component))
        ELSE LET months == parse_component(MonthsN, expression, component[4])
                 days_of_month == parse_component(DaysOfMonthN, expression, component[3])
                 hours == parse_component(HoursN, expression, component[2])
                 minutes == parse_component(MinutesN, expression, component[1])
             IN  IF months.kind # "Ok" THEN months
                 ELSE IF days_of_month.kind # "Ok" THEN days_of_month
                 ELSE IF hours.kind # "Ok" THEN hours
                 ELSE IF minutes.kind # "Ok" THEN minutes
                 ELSE [kind |-> "Ok",
                       schedule |-> [months |-> months.bitfield,
                                     days_of_month |-> days_of_month.bitfield,
                                     hours |-> hours.bitfield,
                                     minutes |-> minutes.bitfield]]

\* ---------------------------------------------------------------- instants

\* time::util::days_in_year_month
IsLeapYear(year) == year % 4 = 0 /\ (year % 100 # 0 \/ year % 400 = 0)

days_in_year_month(year, month) ==
    IF month = 2 THEN (IF IsLeapYear(year) THEN 29 ELSE 28)
    ELSE IF month \in {4, 6, 9, 11} THEN 30 ELSE 31

\* Carries a day number past the end of its month into the next months.
RECURSIVE CarryDays(_)
CarryDays(d) ==
    IF d.day <= days_in_year_month(d.year, d.month) THEN d
    ELSE CarryDays([d EXCEPT
                      !.day = @ - days_in_year_month(d.year, d.month),
                      !.month = IF @ = 12 THEN 1 ELSE @ + 1,
                      !.year = IF d.month = 12 THEN @ + 1 ELSE @])

\* OffsetDateTime::checked_add of a whole number of days, of one hour and
\* of one minute: `some` is FALSE when the sum is past the largest instant.
checked_add_days(d, days) ==
    LET sum == CarryDays([d EXCEPT !.day = @ + days])
    IN  [some |-> sum.year <= LastYear, date |-> sum]

checked_add_HOUR(d) ==
    IF d.hour < 23 THEN [some |-> TRUE, date |-> [d EXCEPT !.hour = @ + 1]]
    ELSE checked_add_days([d EXCEPT !.hour = 0], 1)

checked_add_MINUTE(d) ==
    IF d.minute < 59 THEN [some |-> TRUE, date |-> [d EXCEPT !.minute = @ + 1]]
    ELSE checked_add_HOUR([d EXCEPT !.minute = 0])

\* ----------------------------------------------------------- TimeExtension

to_start_of_minute(d) == [d EXCEPT !.second = 0, !.nanosecond = 0]

to_start_of_hour(d) == [d EXCEPT !.second = 0, !.nanosecond = 0, !.minute = 0]

to_start_of_day(d) ==
    [d EXCEPT !.second = 0, !.nanosecond = 0, !.minute = 0, !.hour = 0]

to_start_of_month(d) ==
    [d EXCEPT !.second = 0, !.nanosecond = 0, !.minute = 0, !.hour = 0, !.day = 1]

\* next_minute without its checked_add.
next_minute_keeps_the_minute(d) ==
    [date |-> to_start_of_minute(d), looped |-> FALSE, overflow |-> FALSE]

\* next_minute, next_hour, next_day, next_month: the instant they leave in
\* place of d, the boolean they return, and whether `expect("time overflow")`
\* panicked.
next_minute(d) ==
    LET sum == checked_add_MINUTE(to_start_of_minute(d))
    IN  [date |-> sum.date, looped |-> d.hour # sum.date.hour, overflow |-> ~sum.some]

next_hour(d) ==
    LET sum == checked_add_HOUR(to_start_of_hour(d))
    IN  [date |-> sum.date, looped |-> d.day # sum.date.day, overflow |-> ~sum.some]

next_day(d) ==
    LET sum == checked_add_days(to_start_of_day(d), 1)
    IN  [date |-> sum.date, looped |-> d.month # sum.date.month, overflow |-> ~sum.some]

\* next_month without its to_start_of_month.
next_month_keeps_the_day(d) ==
    LET sum == checked_add_days(d, days_in_year_month(d.year, d.month))
    IN  [date |-> sum.date, looped |-> TRUE, overflow |-> ~sum.some]

next_month(d) ==
    LET start == to_start_of_month(d)
        sum == checked_add_days(start, days_in_year_month(start.year, start.month))
    IN  [date |-> sum.date, looped |-> TRUE, overflow |-> ~sum.some]

\* ---------------------------------------------------------- get_next_match

is_month_valid(d, valid_months) == d.month \in valid_months

is_day_of_month_valid(d, valid_days_of_month) == d.day \in valid_days_of_month

is_hour_valid(d, valid_hours) == d.hour \in valid_hours

is_minute_valid(d, valid_minutes) == d.minute \in valid_minutes

\* ------------------------------------------------------------------- state

VARIABLES
    expression,   \* the argument of Schedule::new
    from,         \* the argument of get_next_match
    result,       \* what Schedule::new returned: the Schedule or the error
    date,         \* get_next_match's working instant (`mut date`)
    pc            \* where the program is

vars == <<expression, from, result, date, pc>>

self == result.schedule

\* ------------------------------------------------------------------ inputs

RECURSIVE NumStr(_)
NumStr(n) ==
    IF n < 10 THEN <<Digit[n + 1]>>
    ELSE NumStr(n \div 10) \o <<Digit[(n % 10) + 1]>>

RECURSIVE Join(_, _)
Join(parts, sep) ==
    IF Len(parts) = 1 THEN parts[1]
    ELSE parts[1] \o <<sep>> \o Join(Tail(parts), sep)

Star == <<"*">>

RangeStr(a, b) == a \o <<"-">> \o b

StepStr(left, m) == left \o <<"/">> \o m

\* A digit string above usize::MAX.
Oversized == [i \in 1..21 |-> "9"]

\* The numbers of the items of a field of width N: its ends and the first
\* two values past none or one of them.
Numbers(N) == {0, 2, N - 1, N}

Tokens(N) == {NumStr(n) : n \in Numbers(N)} \cup {Oversized, <<"x">>}

\* The items of the lists of a field of width N.
Items(N) ==
    {Star, <<>>, <<"+", "5">>, <<"0", "0", "7">>} \cup Tokens(N)
    \cup {RangeStr(a, b) : a, b \in Tokens(N)}
    \cup {RangeStr(NumStr(1), RangeStr(NumStr(2), NumStr(3))), <<"-", "5">>}
    \cup {StepStr(Star, NumStr(m)) : m \in 0..MaxModulo}
    \cup {StepStr(NumStr(5), NumStr(m)) : m \in 1..MaxModulo}
    \cup {StepStr(Star, Oversized), StepStr(Star, <<"x">>), StepStr(Star, <<>>),
          StepStr(<<>>, NumStr(2)), StepStr(Star, StepStr(NumStr(2), NumStr(3))),
          StepStr(RangeStr(NumStr(1), NumStr(5)), NumStr(3)),
          StepStr(Star, <<"-", "3">>)}

\* The items a list puts before every item, and after every item.
LeadItems == {Star, <<"1">>, <<>>, <<"x">>}

TrailItems == {Star, <<>>}

\* The components of a field of width N: lists of one, two and three items.
Components(N) ==
    {it : it \in Items(N)}
    \cup {Join(<<a, b>>, ",") : a \in LeadItems, b \in Items(N)}
    \cup {Join(<<a, b>>, ",") : a \in Items(N), b \in TrailItems}
    \cup {Join(<<a, <<>>, b>>, ",") : a, b \in {Star, <<"1">>}}

\* What the fields beside the one under study hold.
OtherComponents == {Star, <<"x">>}

DayOfWeekComponents == {Star, <<"1">>}

FieldN == <<MinutesN, HoursN, DaysOfMonthN, MonthsN>>

\* The expressions of the parser's study: one field ranges over
\* Components, the others over OtherComponents; and expressions that do not
\* have five components.
StudiedExpressions(k) ==
    {Join(<<IF k = 1 THEN x ELSE o[1], IF k = 2 THEN x ELSE o[2],
            IF k = 3 THEN x ELSE o[3], IF k = 4 THEN x ELSE o[4], w>>, " ") :
        x \in Components(FieldN[k]),
        o \in {o \in [1..4 -> OtherComponents] : o[k] = Star},
        w \in DayOfWeekComponents}

OtherExpressions ==
         {<<>>, Star,
          Join(<<Star, Star, Star, Star>>, " "),
          Join(<<Star, Star, <<>>, Star, Star, Star>>, " "),
          Join(<<Star, Star, Star, Star, Star, Star>>, " "),
          Join(<<Star, Star, Star, <<"x">>, Star, Star>>, " "),
          Join(<<StepStr(Star, NumStr(0)), Star, Star, Star>>, " "),
          Join(<<<<"0">>, <<"0">>, <<"3", "1">>, <<"4">>, Star>>, " ")}

Instant(year, month, day, hour, minute, second, nanosecond) ==
    [year |-> year, month |-> month, day |-> day, hour |-> hour,
     minute |-> minute, second |-> second, nanosecond |-> nanosecond]

ParseFroms == {Instant(FirstYear, 12, 31, 23, 59, 30, 500)}

\* The expressions of the search's study.
SearchMinutes == {Star, <<"0">>}

SearchHours == {Star, <<"0">>}

SearchDays == {Star, <<"1">>, <<"2", "9">>}

SearchMonths == {Star, <<"1">>, <<"2">>, <<"2", ",", "6">>}

SearchExpressions ==
    {Join(<<mi, h, d, mo, Star>>, " ") :
        mi \in SearchMinutes, h \in SearchHours, d \in SearchDays, mo \in SearchMonths}

SearchFroms ==
    {Instant(y, mo, d, t[1], t[2], sub[1], sub[2]) :
        y \in FirstYear..(FirstYear + 1), mo \in {1, 2, 3, 12}, d \in {1, 28, 29, 31},
        t \in {<<0, 0>>, <<11, 30>>, <<23, 59>>}, sub \in {<<0, 0>>, <<30, 500>>}}

IsInstant(d) == d.day <= days_in_year_month(d.year, d.month)

Init ==
    /\ \/ expression \in SearchExpressions /\ from \in {d \in SearchFroms : IsInstant(d)}
       \/ \E k \in 1..4 : expression \in StudiedExpressions(k) /\ from \in ParseFroms
       \/ expression \in OtherExpressions /\ from \in ParseFroms
    /\ result = [kind |-> "None"]
    /\ date = from
    /\ pc = "new"

\* ----------------------------------------------------------------- actions

\* Schedule::new(expression)
ScheduleNew ==
    /\ pc = "new"
    /\ result' = Schedule_new(expression)
    /\ pc' = IF result'.kind = "Ok" THEN "parsed"
             ELSE IF result'.kind = "Panic" THEN "panicked" ELSE "failed"
    /\ UNCHANGED <<expression, from, date>>

\* get_next_match up to its loops: `date.next_minute()`.
GetNextMatch ==
    /\ pc = "parsed"
    /\ LET r == next_minute(date)
       IN  /\ date' = r.date
           /\ pc' = IF r.overflow THEN "overflow" ELSE "loop_month"
    /\ UNCHANGED <<expression, from, result>>

\* `loop { if is_month_valid(..) {` 
LoopMonth ==
    /\ pc = "loop_month"
    /\ pc' = IF is_month_valid(date, self.months) THEN "loop_day" ELSE "get_next_month"
    /\ UNCHANGED <<expression, from, result, date>>

\* `loop { if is_day_of_month_valid(..) {`
LoopDay ==
    /\ pc = "loop_day"
    /\ pc' = IF is_day_of_month_valid(date, self.days_of_month)
             THEN "loop_hour" ELSE "get_next_day_of_month"
    /\ UNCHANGED <<expression, from, result, date>>

\* `loop { if is_hour_valid(..) {`
LoopHour ==
    /\ pc = "loop_hour"
    /\ pc' = IF is_hour_valid(date, self.hours) THEN "loop_minute" ELSE "get_next_hour"
    /\ UNCHANGED <<expression, from, result, date>>

\* `loop { if is_minute_valid(..) { return date; }`
LoopMinute ==
    /\ pc = "loop_minute"
    /\ pc' = IF is_minute_valid(date, self.minutes) THEN "returned" ELSE "get_next_minute"
    /\ UNCHANGED <<expression, from, result, date>>

\* One turn of get_next_minute's loop and, when it ends, the caller's
\* `if get_next_minute(..) && !is_hour_valid(..) { break; }`.
get_next_minute ==
    /\ pc = "get_next_minute"
    /\ LET r == next_minute(date)
       IN  /\ date' = r.date
           /\ pc' = IF r.overflow THEN "overflow"
                    ELSE IF ~(r.looped \/ is_minute_valid(r.date, self.minutes))
                    THEN "get_next_minute"
                    ELSE IF r.looped /\ ~is_hour_valid(r.date, self.hours)
                    THEN "get_next_hour" ELSE "loop_minute"
    /\ UNCHANGED <<expression, from, result>>

\* One turn of get_next_hour's loop and the caller's
\* `if get_next_hour(..) && !is_day_of_month_valid(..) { break; }`.
get_next_hour ==
    /\ pc = "get_next_hour"
    /\ LET r == next_hour(date)
       IN  /\ date' = r.date
           /\ pc' = IF r.overflow THEN "overflow"
                    ELSE IF ~(r.looped \/ is_hour_valid(r.date, self.hours))
                    THEN "get_next_hour"
                    ELSE IF r.looped /\ ~is_day_of_month_valid(r.date, self.days_of_month)
                    THEN "get_next_day_of_month" ELSE "loop_hour"
    /\ UNCHANGED <<expression, from, result>>

\* One turn of get_next_day_of_month's loop and the caller's
\* `if get_next_day_of_month(..) && !is_month_valid(..) { break; }`.
get_next_day_of_month ==
    /\ pc = "get_next_day_of_month"
    /\ LET r == next_day(date)
       IN  /\ date' = r.date
           /\ pc' = IF r.overflow THEN "overflow"
                    ELSE IF ~(r.looped \/ is_day_of_month_valid(r.date, self.days_of_month))
                    THEN "get_next_day_of_month"
                    ELSE IF r.looped /\ ~is_month_valid(r.date, self.months)
                    THEN "get_next_month" ELSE "loop_day"
    /\ UNCHANGED <<expression, from, result>>

\* One turn of get_next_month's loop; when it ends the outer loop starts over.
get_next_month ==
    /\ pc = "get_next_month"
    /\ LET r == next_month(date)
       IN  /\ date' = r.date
           /\ pc' = IF r.overflow THEN "overflow"
                    ELSE IF is_month_valid(r.date, self.months)
                    THEN "loop_month" ELSE "get_next_month"
    /\ UNCHANGED <<expression, from, result>>

Next ==
    \/ ScheduleNew
    \/ GetNextMatch
    \/ LoopMonth
    \/ LoopDay
    \/ LoopHour
    \/ LoopMinute
    \/ get_next_minute
    \/ get_next_hour
    \/ get_next_day_of_month
    \/ get_next_month

Spec == Init /\ [][Next]_vars

\* Each call runs to its end: the program takes its next step whenever it
\* has one.
FairSpec == Spec /\ WF_vars(Next)

\* One step of get_next_match on the Schedule `schedule`, from the instant d
\* at the control point p: the instant and the control point after it.
SearchStep(schedule, d, p) ==
    IF p = "loop_month"
    THEN [date |-> d,
          pc |-> IF is_month_valid(d, schedule.months) THEN "loop_day" ELSE "get_next_month"]
    ELSE IF p = "loop_day"
    THEN [date |-> d,
          pc |-> IF is_day_of_month_valid(d, schedule.days_of_month)
                 THEN "loop_hour" ELSE "get_next_day_of_month"]
    ELSE IF p = "loop_hour"
    THEN [date |-> d,
          pc |-> IF is_hour_valid(d, schedule.hours) THEN "loop_minute" ELSE "get_next_hour"]
    ELSE IF p = "loop_minute"
    THEN [date |-> d,
          pc |-> IF is_minute_valid(d, schedule.minutes) THEN "returned" ELSE "get_next_minute"]
    ELSE IF p = "get_next_minute"
    THEN LET r == next_minute(d)
         IN  [date |-> r.date,
              pc |-> IF r.overflow THEN "overflow"
                     ELSE IF ~(r.looped \/ is_minute_valid(r.date, schedule.minutes))
                     THEN "get_next_minute"
                     ELSE IF r.looped /\ ~is_hour_valid(r.date, schedule.hours)
                     THEN "get_next_hour" ELSE "loop_minute"]
    ELSE IF p = "get_next_hour"
    THEN LET r == next_hour(d)
         IN  [date |-> r.date,
              pc |-> IF r.overflow THEN "overflow"
                     ELSE IF ~(r.looped \/ is_hour_valid(r.date, schedule.hours))
                     THEN "get_next_hour"
                     ELSE IF r.looped /\ ~is_day_of_month_valid(r.date, schedule.days_of_month)
                     THEN "get_next_day_of_month" ELSE "loop_hour"]
    ELSE IF p = "get_next_day_of_month"
    THEN LET r == next_day(d)
         IN  [date |-> r.date,
              pc |-> IF r.overflow THEN "overflow"
                     ELSE IF ~(r.looped \/ is_day_of_month_valid(r.date, schedule.days_of_month))
                     THEN "get_next_day_of_month"
                     ELSE IF r.looped /\ ~is_month_valid(r.date, schedule.months)
                     THEN "get_next_month" ELSE "loop_day"]
    ELSE LET r == next_month(d)
         IN  [date |-> r.date,
              pc |-> IF r.overflow THEN "overflow"
                     ELSE IF is_month_valid(r.date, schedule.months)
                     THEN "loop_month" ELSE "get_next_month"]

\* The steps of get_next_match from the instant d at the control point p,
\* up to its return or its panic.
RECURSIVE SearchFrom(_, _, _)
SearchFrom(schedule, d, p) ==
    IF p \in {"returned", "overflow"} THEN [date |-> d, pc |-> p]
    ELSE LET n == SearchStep(schedule, d, p)
         IN  SearchFrom(schedule, n.date, n.pc)

\* schedule.get_next_match(d) as a function of the Schedule and the instant.
get_next_match(schedule, d) ==
    LET r == next_minute(d)
    IN  IF r.overflow THEN [date |-> r.date, pc |-> "overflow"]
        ELSE SearchFrom(schedule, r.date, "loop_month")

\* ------------------------------------------------------------------ claims

\* The instant a comes before the instant b.
RECURSIVE LexLess(_, _)
LexLess(a, b) ==
    IF a = <<>> THEN FALSE
    ELSE IF Head(a) # Head(b) THEN Head(a) < Head(b)
    ELSE LexLess(Tail(a), Tail(b))

LexLeq(a, b) == a = b \/ LexLess(a, b)

Fields(d) == <<d.year, d.month, d.day, d.hour, d.minute, d.second, d.nanosecond>>

Before(a, b) == LexLess(Fields(a), Fields(b))

\* Whether p, the first fields of an instant, lies between those of a and b.
Between(a, p, b) ==
    /\ LexLeq(SubSeq(Fields(a), 1, Len(p)), p)
    /\ LexLeq(p, SubSeq(Fields(b), 1, Len(p)))

\* The four bits of the instant d are set in the schedule.
Permits(schedule, d) ==
    /\ d.month \in schedule.months
    /\ d.day \in schedule.days_of_month
    /\ d.hour \in schedule.hours
    /\ d.minute \in schedule.minutes

StarExpression == Join(<<Star, Star, Star, Star, Star>>, " ")

\* C1: the instant get_next_match returns has its month, day of month, hour
\* and minute bits all set in the schedule.
C1_ReturnedInstantIsPermitted ==
    pc = "returned" => Permits(self, date)

\* C2: get_next_match skips no match: no minute-aligned instant t with
\* from < t < result has its four bits set in the schedule.
C2_NoMatchSkipped ==
    pc = "returned" =>
        \A y \in from.year..date.year :
        \A mo \in self.months \cap 1..12 :
            Between(from, <<y, mo>>, date) =>
        \A d \in self.days_of_month \cap 1..days_in_year_month(y, mo) :
            Between(from, <<y, mo, d>>, date) =>
        \A h \in self.hours :
            Between(from, <<y, mo, d, h>>, date) =>
        \A mi \in self.minutes :
            LET t == Instant(y, mo, d, h, mi, 0, 0)
            IN  ~(Before(from, t) /\ Before(t, date))

\* C2's case: a search that returned an instant of a later year.
C2_Witness ==
    pc = "returned" /\ date.year > from.year /\ Permits(self, date)

\* C3: the instant get_next_match returns is strictly later than `from`,
\* also when `from` itself has its four bits set.
C3_ResultStrictlyLater ==
    pc = "returned" => Before(from, date)

\* C3's case: `from` is the start of a minute the schedule permits.
C3_Witness ==
    /\ pc = "returned"
    /\ from.second = 0 /\ from.nanosecond = 0
    /\ Permits(self, from)

\* C4: the search of a schedule with a bit set in each of its four vectors
\* returns: it does not run until the instant leaves the calendar.
C4_SearchReturns ==
    pc = "overflow" =>
        \/ self.months = {}
        \/ self.days_of_month = {}
        \/ self.hours = {}
        \/ self.minutes = {}

\* C5: for "* * * * *" the result is `from` truncated to the start of its
\* minute and advanced by one minute.
C5_EveryMinute ==
    (pc = "returned" /\ expression = StarExpression) =>
        date = checked_add_MINUTE(to_start_of_minute(from)).date

\* Schedule::new has just ended.
NewEnded == pc \in {"parsed", "failed", "panicked"}

\* Among the components c of an expression, the fields beside field f are
\* all `*`, so that field f alone decides the result.
OnlyField(c, f) == \A g \in (1..4) \ {f} : c[g] = Star

\* The vector of field f (1 minute, 2 hour, 3 day of month, 4 month).
Vector(schedule, f) ==
    CASE f = 1 -> schedule.minutes
      [] f = 2 -> schedule.hours
      [] f = 3 -> schedule.days_of_month
      [] f = 4 -> schedule.months

\* C6: a step item `*/m` whose right part is not a positive integer ends
\* with InvalidNumber, and Schedule::new never panics.
C6_StepItemNeverPanics ==
    NewEnded =>
        /\ result.kind # "Panic"
        /\ LET c == Split(expression, " ")
           IN  Len(c) = ExpectedComponents =>
               \A f \in 1..4 :
                  (/\ OnlyField(c, f)
                   /\ c[f] \in {StepStr(Star, m) :
                          m \in {NumStr(0), <<"x">>, <<>>, <<"-", "3">>, Oversized}})
                  => result.kind = "InvalidNumber"

\* C7: a list with an empty item fails with InvalidList; stated for the
\* lists whose other items are valid, in expressions whose other fields
\* are `*`, where no other error can come first.
C7_EmptyItemIsInvalidList ==
    NewEnded =>
        LET c == Split(expression, " ")
        IN  Len(c) = ExpectedComponents =>
            \A f \in 1..4 :
               (/\ OnlyField(c, f)
                /\ LET items == Split(c[f], ",")
                   IN  /\ \E i \in 1..Len(items) : items[i] = <<>>
                       /\ \A i \in 1..Len(items) :
                             items[i] \in {<<>>, Star, <<"1">>, <<"2">>})
               => result.kind = "InvalidList"

April31Expression == Join(<<<<"0">>, <<"0">>, <<"3", "1">>, <<"4">>, Star>>, " ")

\* C8: every month 1..12 and day 1..31 can be permitted; "0 0 31 4 *"
\* parses to a schedule that permits day 31 and month 4.
C8_April31Parses ==
    (NewEnded /\ expression = April31Expression) =>
        /\ result.kind = "Ok"
        /\ 31 \in result.schedule.days_of_month
        /\ 4 \in result.schedule.months

\* C9: in a field of width N the range item `a-b` fails with InvalidRange
\* when a > b or b >= N, and otherwise sets exactly the bits a..b.
C9_RangeItem ==
    NewEnded =>
        LET c == Split(expression, " ")
        IN  Len(c) = ExpectedComponents =>
            \A f \in 1..4 :
               (OnlyField(c, f) /\ Contains(c[f], "-")) =>
               \A a, b \in Numbers(FieldN[f]) :
                  c[f] = RangeStr(NumStr(a), NumStr(b))
                  => IF a > b \/ b >= FieldN[f]
                     THEN result.kind = "InvalidRange"
                     ELSE /\ result.kind = "Ok"
                          /\ Vector(result.schedule, f) = a..b

\* C9's case: a range of more than one value was compiled.
C9_Witness ==
    /\ pc = "parsed"
    /\ \E f \in 1..4 : \E a, b \in Numbers(FieldN[f]) :
          /\ OnlyField(Split(expression, " "), f)
          /\ a < b
          /\ Split(expression, " ")[f] = RangeStr(NumStr(a), NumStr(b))
          /\ Vector(result.schedule, f) = a..b

\* An item with a "/", and what stands before its first "/".
IsStepItem(item) == Contains(item, "/") /\ ~Contains(item, ",")

LeftSide(item) ==
    SubSeq(item, 1, (CHOOSE k \in 1..Len(item) :
                         item[k] = "/" /\ \A j \in 1..(k - 1) : item[j] # "/") - 1)

\* `*/m` as the one item of field f sets the bits i with i mod m = 0.
StepItemSetsMultiples(c, f) ==
    \A m \in 1..MaxModulo :
        c[f] = StepStr(Star, NumStr(m))
        => /\ result.kind = "Ok"
           /\ Vector(result.schedule, f) = {i \in 0..(FieldN[f] - 1) : i % m = 0}

\* C10 as claimed: `*/m` sets bit i iff i mod m = 0, and a step item whose
\* left side is not `*` fails with InvalidModulo.
C10_StepItem ==
    NewEnded =>
        LET c == Split(expression, " ")
        IN  Len(c) = ExpectedComponents =>
            \A f \in 1..4 :
               (OnlyField(c, f) /\ IsStepItem(c[f])) =>
                  /\ StepItemSetsMultiples(c, f)
                  /\ LeftSide(c[f]) # Star => result.kind = "InvalidModulo"

\* C10 as amended: `*/m` sets bit i iff i mod m = 0, and a step item with
\* no "-" in it whose left side is not `*` fails with InvalidModulo (an
\* item with a "-" is compiled as a range item).
C10_StepItemWithoutDash ==
    NewEnded =>
        LET c == Split(expression, " ")
        IN  Len(c) = ExpectedComponents =>
            \A f \in 1..4 :
               (OnlyField(c, f) /\ IsStepItem(c[f])) =>
                  /\ StepItemSetsMultiples(c, f)
                  /\ (LeftSide(c[f]) # Star /\ ~Contains(c[f], "-"))
                     => result.kind = "InvalidModulo"

\* C10's case: the step item `5/3` was compiled.
C10_Witness ==
    /\ pc = "failed"
    /\ result.kind = "InvalidModulo"
    /\ \E f \in 1..4 :
          /\ OnlyField(Split(expression, " "), f)
          /\ Split(expression, " ")[f] = StepStr(NumStr(5), NumStr(3))


\* C11: an expression that does not split on " " into five components fails
\* with InvalidExpressionLength, expected 5 and got the number of its
\* components, whatever its components hold.
C11_ExpressionLength ==
    NewEnded =>
        LET got == Len(Split(expression, " "))
        IN  got # 5 =>
               result = [kind |-> "InvalidExpressionLength", expression |-> expression,
                         expected |-> 5, got |-> got]

\* C11's case: six components, one of which no field would compile.
C11_Witness ==
    /\ pc = "failed"
    /\ expression = Join(<<Star, Star, Star, <<"x">>, Star, Star>>, " ")
    /\ result.kind = "InvalidExpressionLength"
    /\ result.got = 6

\* C12: each of the four vectors of a Schedule that Schedule::new returned
\* has a bit set.
C12_VectorsNotEmpty ==
    pc = "parsed" =>
        /\ self.months # {}
        /\ self.days_of_month # {}
        /\ self.hours # {}
        /\ self.minutes # {}

\* C12's case: a vector with one bit, from a range of one value.
C12_Witness ==
    /\ pc = "parsed"
    /\ \E f \in 1..4 :
          /\ Split(expression, " ")[f] = RangeStr(NumStr(2), NumStr(2))
          /\ Vector(self, f) = {2}


\* "0 0 1 1 *"
NewYearExpression == Join(<<<<"0">>, <<"0">>, <<"1">>, <<"1">>, Star>>, " ")

\* C13: for "0 0 1 1 *" and a starting instant of year Y, get_next_match
\* returns January 1 of Y+1 at 00:00.
C13_NewYear ==
    (pc = "returned" /\ expression = NewYearExpression) =>
        date = Instant(from.year + 1, 1, 1, 0, 0, 0, 0)

\* C13's case: the search started in March.
C13_Witness ==
    /\ pc = "returned"
    /\ expression = NewYearExpression
    /\ from.month = 3
    /\ date.year = from.year + 1

\* "0 0 29 2 *" and "0 0 29 2,6 *"
LeapDayExpression == Join(<<<<"0">>, <<"0">>, <<"2", "9">>, <<"2">>, Star>>, " ")

LeapDayOrJuneExpression ==
    Join(<<<<"0">>, <<"0">>, <<"2", "9">>, <<"2", ",", "6">>, Star>>, " ")

LeapDay(year) == Instant(year, 2, 29, 0, 0, 0, 0)

\* The first leap year whose February 29 00:00 is after d.
NextLeapYear(d) ==
    CHOOSE y \in FirstYear..LastYear :
        /\ IsLeapYear(y) /\ Before(d, LeapDay(y))
        /\ \A z \in FirstYear..(y - 1) : ~(IsLeapYear(z) /\ Before(d, LeapDay(z)))

\* C14: for minute 0, hour 0, day 29 and month February, alone or with June,
\* an instant returned in February is February 29 00:00 of a leap year; with
\* February alone the search returns February 29 of the next leap year.
C14_LeapDay ==
    /\ (pc = "returned" /\ expression \in {LeapDayExpression, LeapDayOrJuneExpression}
            /\ date.month = 2)
          => (IsLeapYear(date.year) /\ date = LeapDay(date.year))
    /\ (pc = "returned" /\ expression = LeapDayExpression)
          => date = LeapDay(NextLeapYear(from))


\* Fifth components without a space: some a field would compile, some not.
DayOfWeekVariants == {Star, <<"x">>, StepStr(Star, NumStr(0))}

\* The expression with its fifth component replaced.
WithDayOfWeek(e, w) ==
    LET c == Split(e, " ") IN Join(<<c[1], c[2], c[3], c[4], w>>, " ")

\* C15: the fifth component does not influence the outcome: an expression
\* and the one that differs from it in the fifth component only give the
\* same Schedule or the same kind of error, and the same get_next_match
\* result from the same instant.
C15_DayOfWeekIgnored ==
    /\ (NewEnded /\ Len(Split(expression, " ")) = 5) =>
          \A w \in DayOfWeekVariants :
             LET other == Schedule_new(WithDayOfWeek(expression, w))
             IN  /\ other.kind = result.kind
                 /\ other.kind = "Ok" => other.schedule = result.schedule
    /\ pc = "returned" =>
          \A w \in DayOfWeekVariants :
             LET other == Schedule_new(WithDayOfWeek(expression, w))
             IN  /\ other.kind = "Ok"
                 /\ get_next_match(other.schedule, from) = [date |-> date, pc |-> "returned"]

\* C15's case: a search that returned, of an expression whose fifth component
\* is a number.
C15_Witness ==
    /\ pc = "returned"
    /\ Len(Split(expression, " ")) = 5
    /\ Split(expression, " ")[5] = <<"1">>
    /\ Schedule_new(WithDayOfWeek(expression, <<"x">>)) = result


\* C16: for every field of width N, the component `*` compiles to exactly the
\* bits 0..N-1: 60 for minutes, 24 for hours, 31 for days, 12 for months.
C16_Wildcard ==
    (NewEnded /\ Len(Split(expression, " ")) = 5) =>
        LET c == Split(expression, " ")
        IN  \A f \in 1..4 :
               c[f] = Star =>
                  /\ parse_component(FieldN[f], expression, c[f]) = Ok(0..(FieldN[f] - 1))
                  /\ result.kind = "Ok" => Vector(result.schedule, f) = 0..(FieldN[f] - 1)

\* C16's case: the four fields are `*`.
C16_Witness ==
    /\ pc = "parsed"
    /\ expression = StarExpression
    /\ self = [months |-> 0..11, days_of_month |-> 0..30, hours |-> 0..23,
               minutes |-> 0..59]

\* C17: the hour bit is tested only while the month and the day of the
\* working instant are permitted, and the minute bit is tested, and the
\* instant returned, only while its month, day and hour are permitted.
C17_LevelInvariant ==
    /\ pc = "loop_hour" =>
          /\ is_month_valid(date, self.months)
          /\ is_day_of_month_valid(date, self.days_of_month)
    /\ pc \in {"loop_minute", "returned"} =>
          /\ is_month_valid(date, self.months)
          /\ is_day_of_month_valid(date, self.days_of_month)
          /\ is_hour_valid(date, self.hours)

\* C18: the items after a `*` in a field's list are still validated: a list
\* with an item after a `*` that does not compile on its own does not parse.
C18_ItemsAfterWildcard ==
    (NewEnded /\ Len(Split(expression, " ")) = 5) =>
        LET c == Split(expression, " ")
        IN  \A f \in 1..4 :
               LET items == Split(c[f], ",")
               IN  \A i, j \in 1..Len(items) :
                      (i < j /\ items[i] = Star
                          /\ parse_component(FieldN[f], expression, items[j]).kind # "Ok")
                        => result.kind # "Ok"


\* What one item of a field's list compiles to on its own.
ItemResult(N, e, component, item) ==
    IF item = <<>> THEN InvalidList(e, component) ELSE parse_component(N, e, item)

\* The positions of the items of component f that do not compile.
FailingItems(e, f) ==
    LET component == Split(e, " ")[f]
        items == Split(component, ",")
    IN  {i \in 1..Len(items) : ItemResult(FieldN[f], e, component, items[i]).kind # "Ok"}

\* C19: parsing succeeds exactly when the four fields compile, and returns
\* the Schedule of the four vectors; with invalid items it returns the error
\* of the first failing field in the order month, day of month, hour,
\* minute, and of the leftmost failing item of that field.
C19_FirstError ==
    (NewEnded /\ Len(Split(expression, " ")) = 5) =>
        LET c == Split(expression, " ")
            failing == {f \in 1..4 : FailingItems(expression, f) # {}}
        IN  IF failing = {}
            THEN result =
                   [kind |-> "Ok",
                    schedule |->
                      [months |-> parse_component(MonthsN, expression, c[4]).bitfield,
                       days_of_month |-> parse_component(DaysOfMonthN, expression, c[3]).bitfield,
                       hours |-> parse_component(HoursN, expression, c[2]).bitfield,
                       minutes |-> parse_component(MinutesN, expression, c[1]).bitfield]]
            ELSE LET f == CHOOSE f \in failing : \A g \in failing : g <= f
                     i == CHOOSE i \in FailingItems(expression, f) :
                             \A j \in FailingItems(expression, f) : i <= j
                     e == ItemResult(FieldN[f], expression, c[f], Split(c[f], ",")[i])
                 IN  /\ result.kind \notin {"Ok", "Panic"}
                     /\ e.kind # "Panic" => result = e

\* C20: bit 0 of months and bit 0 of days_of_month are unset in every
\* Schedule that Schedule::new returned.
C20_IndexZeroUnset ==
    pc = "parsed" => (0 \notin self.months /\ 0 \notin self.days_of_month)

====
